---- MODULE Spec2Model ----
(***************************************************************************)
(* NovaGenerator (src/utils/canvas.py): the task router generate_image,    *)
(* the request builders, the synchronous invoke_model call and the         *)
(* asynchronous video job poller generate_video, together with the remote  *)
(* services they talk to (Bedrock runtime, S3).                            *)
(*                                                                         *)
(* Encoding of Python values:                                              *)
(*   - None is the token None; scalars (str, and numbers that only travel  *)
(*     through the code) are TLA+ strings, so 1024 is "1024";              *)
(*   - num_images is a natural number, because results are counted;        *)
(*   - a dict is a function whose DOMAIN is the set of keys present;       *)
(*   - a list is a sequence;                                               *)
(*   - a str that the code slices or splits is a sequence of atoms, each   *)
(*     atom one character or a run of characters without separator;        *)
(*   - a base64 image is the record of what it decodes to;                 *)
(*   - where one variable holds a str or a list, the value carries its     *)
(*     type (PyStr, PyList, PyNone).                                       *)
(***************************************************************************)
EXTENDS Integers, Sequences, FiniteSets, TLC

VARIABLES
    pc,             \* per call: position of the call in the code
    method,         \* per call: the entry point called
    task_type,      \* per call: the task_type handed to generate_image
    params,         \* per call: the parameter bag (a dict)
    request_body,   \* per call: the envelope built (request_body / model_input)
    response,       \* per call: invocationArn returned by start_async_invoke
    job_response,   \* per call: last answer of get_async_invoke
    http_response,  \* per call: JSON body answered by invoke_model
    result,         \* per call: the value returned to the caller
    error,          \* per call: the exception that left the call
    log,            \* per call: the calls made to collaborators, in order
    jobs            \* remote service: async jobs by invocationArn

vars == <<pc, method, task_type, params, request_body, response, job_response,
          http_response, result, error, log, jobs>>

---------------------------------------------------------------------------
(* Bounds of the exploration *)

NumCalls == 2       \* calls (and so invocationArns) that exist in the model
MaxReads == 3       \* status reads one generate_video call performs at most
MaxImages == 2      \* images a response of invoke_model carries at most

Calls == 1..NumCalls
Arns  == 1..NumCalls

---------------------------------------------------------------------------
(* Python values *)

None == "None"

\* bool(v) of a str-or-None value
Truthy(v) == v # None /\ v # ""

\* dict.get(key, default)
Get(d, key, default) == IF key \in DOMAIN d THEN d[key] ELSE default

EmptyDict == [k \in {} |-> None]

\* the dicts {key: v} for v in Vals, and the empty dict: an optional entry
Opt(key, Vals) == {EmptyDict} \cup {key :> v : v \in Vals}

\* all unions of one dict of A with one dict of B (their keys are disjoint)
Cross(A, B) == {a @@ b : a \in A, b \in B}

\* values whose Python type the code or the caller tells apart
PyNone == [type |-> "None", v |-> <<>>]
PyStr(atoms) == [type |-> "str", v |-> atoms]
PyList(elems) == [type |-> "list", v |-> elems]

NoError == [exc |-> None, msg |-> <<>>]

\* an exception of the transport (botocore) raised by a remote call
TransportError == [exc |-> "ClientError", msg |-> <<"transport failure">>]

\* base64.b64encode(data).decode('utf-8')
b64encode(data) == <<"base64">> \o data

---------------------------------------------------------------------------
(* Base64 images and the Media Normalizer *)

\* A base64 str that decodes to an image: its file format, PIL mode,
\* whether img.info has 'transparency', and one representative pixel
\* (colour and alpha; alpha 255 for modes without alpha).
Blob(fmt, mode, tinfo, px, alpha) ==
    [fmt |-> fmt, mode |-> mode, tinfo |-> tinfo, px |-> px, alpha |-> alpha]

NoneBlob  == Blob("None", "None", FALSE, "None", 0)      \* None
EmptyBlob == Blob("empty", "None", FALSE, "None", 0)     \* ''
Garbage   == Blob("garbage", "None", FALSE, "None", 0)   \* not an image
JpegRGB   == Blob("JPEG", "RGB", FALSE, "red", 255)
PngRGBA   == Blob("PNG", "RGBA", FALSE, "red", 0)
PngP      == Blob("PNG", "P", FALSE, "red", 255)
PngLA     == Blob("PNG", "LA", FALSE, "gray", 0)
PngPTrns  == Blob("PNG", "P", TRUE, "red", 0)         \* palette with tRNS
TiffRGBa  == Blob("TIFF", "RGBa", FALSE, "red", 0)    \* premultiplied alpha

\* bool(v) of a base64-str-or-None value
TruthyBlob(b) == b.fmt \notin {"None", "empty"}

\* base64.b64decode + Image.open succeed
Decodable(b) == b.fmt \in {"PNG", "JPEG", "TIFF"}

\* modes PIL's JPEG writer accepts
JpegModes == {"1", "L", "RGB", "RGBX", "CMYK", "YCbCr"}

\* background.paste(img) for every mode: the alpha band is not used
Composite_noMask(img) == [img EXCEPT !.mode = "RGB", !.alpha = 255]

\* the pixel after background.paste(img, mask=alpha) on white / paste(img)
Composite(img) ==
    IF img.mode = "RGBA"
    THEN [img EXCEPT !.mode = "RGB",
                     !.px = IF img.alpha = 0 THEN "white"
                            ELSE IF img.alpha = 255 THEN img.px
                            ELSE "blend",
                     !.alpha = 255]
    ELSE [img EXCEPT !.mode = "RGB", !.alpha = 255]

\* the body of the try: ok is FALSE when a step raises (b64decode or
\* Image.open on something that is no image, img.save on a mode the JPEG
\* writer refuses)
TryNormalize(image_base64) ==
    IF ~Decodable(image_base64) THEN [ok |-> FALSE, out |-> image_base64]
    ELSE LET img == image_base64
             flat == IF \/ img.mode \in {"RGBA", "LA"}
                        \/ (img.mode = "P" /\ img.tinfo)
                     THEN Composite(img)
                     ELSE img
         IN  IF flat.mode \in JpegModes
             THEN [ok |-> TRUE,
                   out |-> Blob("JPEG", flat.mode, FALSE, flat.px, flat.alpha)]
             ELSE [ok |-> FALSE, out |-> image_base64]

\* an except branch that forgets to return the input
_ensure_valid_image_format_noReturn(image_base64) ==
    IF TryNormalize(image_base64).ok THEN TryNormalize(image_base64).out
    ELSE NoneBlob

_ensure_valid_image_format(image_base64) ==
    IF TryNormalize(image_base64).ok THEN TryNormalize(image_base64).out
    ELSE image_base64

---------------------------------------------------------------------------
(* str helpers on sequences of atoms *)

\* s[n:]
SliceFrom(s, n) == SubSeq(s, n + 1, Len(s))

\* index of the first sep in s, 0 when there is none
RECURSIVE FindFrom(_, _, _)
FindFrom(s, sep, i) ==
    IF i > Len(s) THEN 0
    ELSE IF s[i] = sep THEN i
    ELSE FindFrom(s, sep, i + 1)

\* s.split(sep, 1)
Split1(s, sep) ==
    LET i == FindFrom(s, sep, 1)
    IN  IF i = 0 THEN <<s>>
        ELSE <<SubSeq(s, 1, i - 1), SubSeq(s, i + 1, Len(s))>>

---------------------------------------------------------------------------
(* generate_video: the envelope *)

s3_bucket == "chanhos-misc"
s3_key_prefix == "nova-videos"

\* f"s3://{s3_bucket}/{s3_key_prefix}/"
RequestS3Uri == <<"s", "3", ":", "/", "/", s3_bucket, "/", s3_key_prefix, "/">>

VideoModelInput(p) ==
    [taskType |-> "TEXT_VIDEO",
     textToVideoParams |->
        [text |-> Get(p, "text", None),
         images |-> << [format |-> "png",
                        source |-> [bytes |-> Get(p, "image", NoneBlob)]] >>],
     videoGenerationConfig |->
        [durationSeconds |-> "6",
         fps |-> "24",
         dimension |-> "1280x720",
         seed |-> Get(p, "seed", None)]]

\* parameter bags a caller hands to generate_video
VideoBags ==
    Cross(Opt("text", {"", "Dolly forward"}),
          Cross(Opt("image", {JpegRGB}), Opt("seed", {"12"})))

---------------------------------------------------------------------------
(* The remote async service *)

NonTerminal == {"Submitted", "InProgress"}

\* "Failed" is the failure status of the status-poll interface; "FAILED" is
\* the literal generate_video compares the status with
FailureStatuses == {"Failed", "FAILED"}

Terminal == {"Completed"} \cup FailureStatuses

FailureMessages == {None, "content filtered"}

NoJob == [status |-> None, failureMessage |-> None, s3Uri |-> <<>>]

\* the output location the service reports for job a: <request s3Uri><job id>
JobS3Uri(a) == RequestS3Uri \o <<"job", a>>

\* the object the service writes when job a completes
OutputObject(a) ==
    [bucket |-> s3_bucket,
     key |-> <<s3_key_prefix, "/", "job", a, "/",
               "o", "u", "t", "p", "u", "t", ".", "m", "p", "4">>,
     data |-> <<"mp4", a>>]

FreeArns == {a \in Arns : jobs[a].status = None}

\* the answer of get_async_invoke(invocationArn = a)
DescribeJob(a) ==
    LET j == jobs[a]
        base == [status |-> j.status,
                 outputDataConfig |-> [s3OutputDataConfig |-> [s3Uri |-> j.s3Uri]]]
    IN  IF j.failureMessage = None THEN base
        ELSE ("failureMessage" :> j.failureMessage) @@ base

NoJobResponse == [status |-> None]

\* the remote job moves on: Submitted -> InProgress -> Completed | Failed
JobProgress(a) ==
    /\ jobs[a].status \in NonTerminal
    /\ \E s \in ({"InProgress"} \ {jobs[a].status}) \cup Terminal :
       \E m \in FailureMessages :
          /\ (s \notin FailureStatuses) => (m = None)
          /\ jobs' = [jobs EXCEPT ![a] = [@ EXCEPT !.status = s,
                                                   !.failureMessage = m]]
    /\ UNCHANGED <<pc, method, task_type, params, request_body, response, job_response,
                   http_response, result, error, log>>

---------------------------------------------------------------------------
(* generate_video *)

Append1(c, entry) == [log EXCEPT ![c] = Append(@, entry)]

\* entry of generate_video(p) up to the call of start_async_invoke
GenerateVideoOf(c, p) ==
    /\ pc[c] = "idle"
    /\ params' = [params EXCEPT ![c] = p]
    /\ request_body' = [request_body EXCEPT ![c] = VideoModelInput(p)]
    /\ method' = [method EXCEPT ![c] = "generate_video"]
    /\ pc' = [pc EXCEPT ![c] = "start_async_invoke"]
    /\ UNCHANGED <<task_type, response, job_response, http_response, result, error,
                   log, jobs>>

GenerateVideo(c) == \E p \in VideoBags : GenerateVideoOf(c, p)

\* bedrock_runtime.start_async_invoke(...) answers or raises
StartAsyncInvoke(c) ==
    /\ pc[c] = "start_async_invoke"
    /\ \/ /\ FreeArns # {}
          /\ LET a == CHOOSE x \in FreeArns : \A y \in FreeArns : x <= y
             IN  /\ jobs' = [jobs EXCEPT ![a] =
                                [status |-> "Submitted",
                                 failureMessage |-> None,
                                 s3Uri |-> JobS3Uri(a)]]
                 /\ response' = [response EXCEPT ![c] = a]
                 /\ log' = Append1(c, [op |-> "start_async_invoke", outcome |-> "ok",
                                       arn |-> a])
          /\ pc' = [pc EXCEPT ![c] = "get_async_invoke"]
          /\ UNCHANGED error
       \/ /\ log' = Append1(c, [op |-> "start_async_invoke", outcome |-> "raise"])
          /\ pc' = [pc EXCEPT ![c] = "raised"]
          /\ error' = [error EXCEPT ![c] = TransportError]
          /\ UNCHANGED <<jobs, response>>
    /\ UNCHANGED <<method, task_type, params, request_body, job_response, http_response, result>>

\* number of status reads call c has made
Reads(c) == Len(SelectSeq(log[c], LAMBDA e : e.op = "get_async_invoke"))

\* a handle kept in one place for all calls: the latest one started
InvocationArn_shared(c) ==
    CHOOSE a \in Arns \ FreeArns : \A b \in Arns \ FreeArns : b <= a

\* response["invocationArn"] of the call's own local response
InvocationArn(c) == response[c]

\* the branch of the polling loop taken on a status
PollBranch_sleepOnCompleted(status) ==
    IF status = "FAILED" THEN "raised" ELSE "sleep"

PollBranch(status) ==
    IF status = "Completed" THEN "get_object"
    ELSE IF status = "FAILED" THEN "raised"
    ELSE "sleep"

\* one iteration of `while True` up to its branch: get_async_invoke answers
\* or raises (nothing catches the exception), then the status is tested
GetAsyncInvoke(c) ==
    /\ pc[c] = "get_async_invoke"
    /\ Reads(c) < MaxReads
    /\ \/ /\ log' = Append1(c, [op |-> "get_async_invoke", outcome |-> "raise",
                                arn |-> InvocationArn(c)])
          /\ pc' = [pc EXCEPT ![c] = "raised"]
          /\ error' = [error EXCEPT ![c] = TransportError]
          /\ UNCHANGED job_response
       \/ LET jr == DescribeJob(InvocationArn(c))
              branch == PollBranch(jr.status)
          IN  /\ job_response' = [job_response EXCEPT ![c] = jr]
              /\ log' = Append1(c, [op |-> "get_async_invoke", outcome |-> jr.status,
                                    arn |-> InvocationArn(c)])
              /\ pc' = [pc EXCEPT ![c] = branch]
              /\ error' = [error EXCEPT ![c] =
                    IF branch = "raised"
                    THEN [exc |-> "Exception",
                          msg |-> <<"Video generation failed: ",
                                    Get(jr, "failureMessage", "Unknown error")>>]
                    ELSE @]
    /\ UNCHANGED <<method, task_type, params, request_body, response, http_response,
                   result, jobs>>

SleepSeconds == 10

\* time.sleep(10)
Sleep(c) ==
    /\ pc[c] = "sleep"
    /\ log' = Append1(c, [op |-> "sleep", outcome |-> "ok", secs |-> SleepSeconds])
    /\ pc' = [pc EXCEPT ![c] = "get_async_invoke"]
    /\ UNCHANGED <<method, task_type, params, request_body, response, job_response,
                   http_response, result, error, jobs>>

\* bucket and key derived from the job's output location
VideoPath(jr) ==
    jr.outputDataConfig.s3OutputDataConfig.s3Uri
        \o <<"/", "o", "u", "t", "p", "u", "t", ".", "m", "p", "4">>

BucketAndKey(jr) == Split1(SliceFrom(VideoPath(jr), 5), "/")

Bucket(jr) == BucketAndKey(jr)[1][1]

Key(jr) == IF Len(BucketAndKey(jr)) > 1 THEN BucketAndKey(jr)[2] ELSE <<None>>

\* the objects the store holds: the outputs of the completed jobs
StoredObjects == {OutputObject(a) : a \in {x \in Arns : jobs[x].status = "Completed"}}

\* causes for which get_object (or the read of its body) raises
FetchFailures(found) ==
    {"EndpointConnectionError"} \cup (IF found = {} THEN {"NoSuchKey"} ELSE {})

\* the Completed branch: s3_client.get_object inside try/except; onFailure
\* is where a failed fetch leads
GetObjectWith(c, onFailure) ==
    /\ pc[c] = "get_object"
    /\ LET bucket == Bucket(job_response[c])
           key == Key(job_response[c])
           found == {o \in StoredObjects : o.bucket = bucket /\ o.key = key}
       IN  \/ /\ found # {}
              /\ LET obj == CHOOSE o \in found : TRUE
                 IN  result' = [result EXCEPT ![c] = PyStr(b64encode(obj.data))]
              /\ log' = Append1(c, [op |-> "get_object", outcome |-> "ok",
                                    bucket |-> bucket, key |-> key])
              /\ pc' = [pc EXCEPT ![c] = "returned"]
              /\ UNCHANGED error
           \/ \E cause \in FetchFailures(found) :
              /\ log' = Append1(c, [op |-> "get_object", outcome |-> cause,
                                    bucket |-> bucket, key |-> key])
              /\ pc' = [pc EXCEPT ![c] = onFailure]
              /\ error' = [error EXCEPT ![c] =
                              [exc |-> "Exception",
                               msg |-> <<"Error downloading video: ", cause>>]]
              /\ UNCHANGED result
    /\ UNCHANGED <<method, task_type, params, request_body, response, job_response,
                   http_response, jobs>>

GetObject_backToPolling(c) == GetObjectWith(c, "sleep")

GetObject(c) == GetObjectWith(c, "raised")

---------------------------------------------------------------------------
(* Request builders: each yields the envelope it sends (body) and the     *)
(* images it hands to the Media Normalizer, in order (norm).              *)

\* a split that finds no separator
Split_none(s, sep) == <<s>>

\* s.split(sep)
RECURSIVE Split(_, _)
Split(s, sep) ==
    LET i == FindFrom(s, sep, 1)
    IN  IF i = 0 THEN <<s>>
        ELSE <<SubSeq(s, 1, i - 1)>> \o Split(SubSeq(s, i + 1, Len(s)), sep)

background_removal_withConfig(image) ==
    [body |-> [taskType |-> "BACKGROUND_REMOVAL",
               imageGenerationConfig |-> [numberOfImages |-> 1],
               backgroundRemovalParams |-> [image |-> image]],
     norm |-> <<>>]

background_removal(image) ==
    [body |-> [taskType |-> "BACKGROUND_REMOVAL",
               backgroundRemovalParams |-> [image |-> image]],
     norm |-> <<>>]

text_image(text, negative_text, num_images, width, height, quality, cfg_scale, seed, condition_image, control_mode, control_strength) ==
    LET p0 == [text |-> text]
        p1 == IF Truthy(negative_text)
              THEN ("negativeText" :> negative_text) @@ p0
              ELSE p0
        p2 == IF TruthyBlob(condition_image)
              THEN [conditionImage |-> _ensure_valid_image_format(condition_image),
                    controlMode |-> control_mode,
                    controlStrength |-> control_strength] @@ p1
              ELSE p1
    IN  [body |-> [taskType |-> "TEXT_IMAGE",
                   imageGenerationConfig |->
                      [width |-> width,
                       height |-> height,
                       numberOfImages |-> num_images,
                       quality |-> quality,
                       cfgScale |-> cfg_scale,
                       seed |-> seed],
                   textToImageParams |-> p2],
         norm |-> IF TruthyBlob(condition_image) THEN <<condition_image>> ELSE <<>>]

\* `if mask_image: ... elif mask_prompt: ...` of inpainting and outpainting
MaskParams_both(base, mask_image, mask_prompt) ==
    (IF TruthyBlob(mask_image)
     THEN ("maskImage" :> _ensure_valid_image_format(mask_image)) ELSE EmptyDict)
    @@ (IF Truthy(mask_prompt) THEN ("maskPrompt" :> mask_prompt) ELSE EmptyDict)
    @@ base

MaskParams_rawMask(base, mask_image, mask_prompt) ==
    IF TruthyBlob(mask_image)
    THEN ("maskImage" :> mask_image) @@ base
    ELSE IF Truthy(mask_prompt)
    THEN ("maskPrompt" :> mask_prompt) @@ base
    ELSE base

MaskParams_promptFirst(base, mask_image, mask_prompt) ==
    IF Truthy(mask_prompt)
    THEN ("maskPrompt" :> mask_prompt) @@ base
    ELSE IF TruthyBlob(mask_image)
    THEN ("maskImage" :> _ensure_valid_image_format(mask_image)) @@ base
    ELSE base

MaskParams(base, mask_image, mask_prompt) ==
    IF TruthyBlob(mask_image)
    THEN ("maskImage" :> _ensure_valid_image_format(mask_image)) @@ base
    ELSE IF Truthy(mask_prompt)
    THEN ("maskPrompt" :> mask_prompt) @@ base
    ELSE base

MaskNorm(mask_image) == IF TruthyBlob(mask_image) THEN <<mask_image>> ELSE <<>>

inpainting(image, text, negative_text, mask_image, mask_prompt, num_images, quality, cfg_scale, seed) ==
    LET p0 == [image |-> _ensure_valid_image_format(image), text |-> text]
        p1 == IF Truthy(negative_text)
              THEN ("negativeText" :> negative_text) @@ p0
              ELSE p0
    IN  [body |-> [taskType |-> "INPAINTING",
                   imageGenerationConfig |->
                      [numberOfImages |-> num_images,
                       quality |-> quality,
                       cfgScale |-> cfg_scale,
                       seed |-> seed],
                   inPaintingParams |-> MaskParams(p1, mask_image, mask_prompt)],
         norm |-> <<image>> \o MaskNorm(mask_image)]

outpainting(image, text, mask_image, mask_prompt, outpainting_mode, num_images, quality, cfg_scale, seed) ==
    LET p0 == [image |-> _ensure_valid_image_format(image),
               text |-> text,
               outPaintingMode |-> outpainting_mode]
    IN  [body |-> [taskType |-> "OUTPAINTING",
                   imageGenerationConfig |->
                      [numberOfImages |-> num_images,
                       quality |-> quality,
                       cfgScale |-> cfg_scale,
                       seed |-> seed],
                   outPaintingParams |-> MaskParams(p0, mask_image, mask_prompt)],
         norm |-> <<image>> \o MaskNorm(mask_image)]

color_guided_generation(text, colors, width, height, reference_image, num_images, quality, cfg_scale, seed) ==
    LET p0 == [text |-> text,
               colors |-> IF colors.type = "list" THEN colors.v
                          ELSE Split(colors.v, ",")]
        p1 == IF TruthyBlob(reference_image)
              THEN ("image" :> _ensure_valid_image_format(reference_image)) @@ p0
              ELSE p0
    IN  [body |-> [taskType |-> "COLOR_GUIDED_GENERATION",
                   imageGenerationConfig |->
                      [width |-> width,
                       height |-> height,
                       numberOfImages |-> num_images,
                       quality |-> quality,
                       cfgScale |-> cfg_scale,
                       seed |-> seed],
                   colorGuidedGenerationParams |-> p1],
         norm |-> IF TruthyBlob(reference_image) THEN <<reference_image>> ELSE <<>>]

image_variation(images, text, num_images, quality, cfg_scale, seed) ==
    [body |-> [taskType |-> "IMAGE_VARIATION",
               imageGenerationConfig |->
                  [numberOfImages |-> num_images,
                   quality |-> quality,
                   cfgScale |-> cfg_scale,
                   seed |-> seed],
               imageVariationParams |->
                  [images |-> [i \in 1..Len(images) |->
                                  _ensure_valid_image_format(images[i])],
                   text |-> text]],
     norm |-> images]

---------------------------------------------------------------------------
(* Task router *)

SupportedTasks == {"TEXT_IMAGE", "INPAINTING", "OUTPAINTING",
                   "COLOR_GUIDED_GENERATION", "BACKGROUND_REMOVAL",
                   "IMAGE_VARIATION"}

\* the branches of the if/elif chain of generate_image
Dispatch(task, p) ==
    LET num_images == Get(p, "num_images", 1)
        quality == Get(p, "quality", "standard")
        cfg_scale == Get(p, "cfg_scale", "6.5")
        seed == Get(p, "seed", "0")
    IN  CASE task = "TEXT_IMAGE" ->
               text_image(Get(p, "text", ""), Get(p, "negativeText", ""),
                          num_images, Get(p, "width", None), Get(p, "height", None),
                          quality, cfg_scale, seed,
                          Get(p, "conditionImage", NoneBlob),
                          Get(p, "controlMode", "CANNY_EDGE"),
                          Get(p, "controlStrength", "0.7"))
          [] task = "INPAINTING" ->
               inpainting(Get(p, "image", EmptyBlob), Get(p, "text", ""),
                          Get(p, "negativeText", ""),
                          Get(p, "maskImage", NoneBlob), Get(p, "maskPrompt", None),
                          num_images, quality, cfg_scale, seed)
          [] task = "OUTPAINTING" ->
               outpainting(Get(p, "image", EmptyBlob), Get(p, "text", ""),
                           Get(p, "maskImage", NoneBlob), Get(p, "maskPrompt", None),
                           Get(p, "outPaintingMode", "DEFAULT"),
                           num_images, quality, cfg_scale, seed)
          [] task = "COLOR_GUIDED_GENERATION" ->
               LET colors == Get(p, "colors", PyStr(<<>>))
               IN  color_guided_generation(
                       Get(p, "text", ""),
                       IF colors.type = "str" THEN PyList(Split(colors.v, ","))
                                              ELSE colors,
                       Get(p, "width", None), Get(p, "height", None),
                       Get(p, "referenceImage", NoneBlob),
                       num_images, quality, cfg_scale, seed)
          [] task = "BACKGROUND_REMOVAL" ->
               background_removal(Get(p, "image", EmptyBlob))
          [] task = "IMAGE_VARIATION" ->
               image_variation(Get(p, "images", <<>>), Get(p, "text", ""),
                               num_images, quality, cfg_scale, seed)

Raised(exc, msg) ==
    [raised |-> TRUE, error |-> [exc |-> exc, msg |-> msg],
     body |-> [taskType |-> None], norm |-> <<>>]

Built(b) ==
    [raised |-> FALSE, error |-> [exc |-> None, msg |-> <<>>],
     body |-> b.body, norm |-> b.norm]

\* the keys a validating router would insist on
RequiredKeys(task) ==
    CASE task = "TEXT_IMAGE" -> {"text"}
      [] task = "INPAINTING" -> {"image", "text"}
      [] task = "OUTPAINTING" -> {"image"}
      [] task = "COLOR_GUIDED_GENERATION" -> {"text", "colors"}
      [] task = "BACKGROUND_REMOVAL" -> {"image"}
      [] task = "IMAGE_VARIATION" -> {"images"}
      [] OTHER -> {}

generate_image_fallThrough(task, p) ==
    Built(Dispatch(IF task \in SupportedTasks THEN task ELSE "TEXT_IMAGE", p))

generate_image_validating(task, p) ==
    IF task \notin SupportedTasks
    THEN Raised("ValueError", <<"Unsupported task type: ", task>>)
    ELSE IF ~(RequiredKeys(task) \subseteq DOMAIN p)
    THEN Raised("ValueError", <<"Missing required field">>)
    ELSE Built(Dispatch(task, p))

generate_image(task, p) ==
    IF task \in SupportedTasks
    THEN Built(Dispatch(task, p))
    ELSE Raised("ValueError", <<"Unsupported task type: ", task>>)

---------------------------------------------------------------------------
(* Parameter bags a caller hands to generate_image *)

Texts == {"", "a red cube"}
Images == {JpegRGB, PngRGBA, Garbage}
CommonBags == Opt("num_images", {2})

Red == <<"#FF0000">>
Green == <<"#00FF00">>
Blue == <<"#0000FF">>

ImageBags(task) ==
    CASE task = "TEXT_IMAGE" ->
           Cross(Opt("text", Texts),
           Cross(Opt("negativeText", {"blurry"}),
           Cross(Opt("width", {"512"}),
           Cross(Opt("height", {"768"}),
           Cross(Opt("conditionImage", Images), CommonBags)))))
      [] task = "INPAINTING" ->
           Cross(Opt("image", {JpegRGB, PngRGBA}),
           Cross(Opt("text", Texts),
           Cross(Opt("maskImage", {EmptyBlob, PngRGBA}),
           Cross(Opt("maskPrompt", {"", "the cube"}), CommonBags))))
      [] task = "OUTPAINTING" ->
           Cross(Opt("image", {JpegRGB, PngRGBA}),
           Cross(Opt("text", {"a red cube"}),
           Cross(Opt("maskImage", {EmptyBlob, PngRGBA}),
           Cross(Opt("maskPrompt", {"", "the cube"}),
           Cross(Opt("outPaintingMode", {"PRECISE"}), CommonBags)))))
      [] task = "COLOR_GUIDED_GENERATION" ->
           Cross(Opt("text", Texts),
           Cross(Opt("colors", {PyStr(<<>>), PyStr(Red \o <<",">> \o Green),
                                PyStr(Blue \o <<",">> \o Red \o <<",">> \o Green),
                                PyList(<<Red, Green>>), PyList(<<>>)}),
           Cross(Opt("width", {"512"}),
           Cross(Opt("height", {"768"}),
           Cross(Opt("referenceImage", {PngRGBA}), CommonBags)))))
      [] task = "BACKGROUND_REMOVAL" ->
           Opt("image", Images)
      [] task = "IMAGE_VARIATION" ->
           Cross(Opt("images", {<<>>, <<JpegRGB>>, <<PngRGBA, Garbage>>, <<PngP>>,
                            <<PngLA, PngPTrns>>, <<TiffRGBa>>}),
           Cross(Opt("text", Texts), CommonBags))
      [] OTHER ->
           Cross(Opt("text", {"a red cube"}),
           Cross(Opt("image", {PngRGBA}), Opt("conditionImage", {PngRGBA})))

UnsupportedTasks == {"UNKNOWN", "TEXT_VIDEO"}

TaskTypes == SupportedTasks \cup UnsupportedTasks

---------------------------------------------------------------------------
(* generate_image and the synchronous invoker *)

NormLog(norm) ==
    [i \in 1..Len(norm) |->
        [op |-> "_ensure_valid_image_format", outcome |-> "ok", arg |-> norm[i]]]

\* generate_image(task, p) up to the call of invoke_model, or to its raise
GenerateImageOf(c, task, p) ==
    /\ pc[c] = "idle"
    /\ LET r == generate_image(task, p)
       IN  /\ method' = [method EXCEPT ![c] = "generate_image"]
           /\ task_type' = [task_type EXCEPT ![c] = task]
           /\ params' = [params EXCEPT ![c] = p]
           /\ request_body' = [request_body EXCEPT ![c] = r.body]
           /\ error' = [error EXCEPT ![c] = r.error]
           /\ log' = [log EXCEPT ![c] = @ \o NormLog(r.norm)]
           /\ pc' = [pc EXCEPT ![c] = IF r.raised THEN "raised" ELSE "invoke_model"]
    /\ UNCHANGED <<response, job_response, http_response, result, jobs>>

GenerateImage(c) ==
    \E task \in TaskTypes : \E p \in ImageBags(task) : GenerateImageOf(c, task, p)

\* the images a response carries
OutImages(k) == [i \in 1..k |-> <<"B64_OUT", i>>]

\* JSON bodies the remote inference endpoint answers with
ResponseBodies ==
    {[images |-> OutImages(k)] : k \in 0..MaxImages} \cup {[message |-> "blocked"]}

\* the default of `result.get('images', default)` for the task of the envelope
ResultDefault(body) ==
    IF body.taskType = "BACKGROUND_REMOVAL" THEN PyStr(<<>>) ELSE PyList(<<>>)

Unwrap_firstOnly(body, http) ==
    IF "images" \in DOMAIN http /\ Len(http.images) > 0
    THEN PyList(SubSeq(http.images, 1, 1))
    ELSE ResultDefault(body)

\* result.get('images', default)
Unwrap(body, http) ==
    IF "images" \in DOMAIN http THEN PyList(http.images) ELSE ResultDefault(body)

\* bedrock_runtime.invoke_model answers, or it (or reading and parsing its
\* body) raises; the images are unwrapped
InvokeModel(c) ==
    /\ pc[c] = "invoke_model"
    /\ \/ /\ log' = Append1(c, [op |-> "invoke_model", outcome |-> "raise"])
          /\ pc' = [pc EXCEPT ![c] = "raised"]
          /\ error' = [error EXCEPT ![c] = TransportError]
          /\ UNCHANGED <<http_response, result>>
       \/ \E http \in ResponseBodies :
          /\ log' = Append1(c, [op |-> "invoke_model", outcome |-> "ok"])
          /\ http_response' = [http_response EXCEPT ![c] = http]
          /\ result' = [result EXCEPT ![c] = Unwrap(request_body[c], http)]
          /\ pc' = [pc EXCEPT ![c] = "returned"]
          /\ UNCHANGED error
    /\ UNCHANGED <<method, task_type, params, request_body, response, job_response, jobs>>

---------------------------------------------------------------------------
(* The system *)

NoBody == [taskType |-> None]

InitCommon ==
    /\ method = [c \in Calls |-> None]
    /\ task_type = [c \in Calls |-> None]
    /\ params = [c \in Calls |-> EmptyDict]
    /\ request_body = [c \in Calls |-> NoBody]
    /\ response = [c \in Calls |-> 0]
    /\ job_response = [c \in Calls |-> NoJobResponse]
    /\ http_response = [c \in Calls |-> EmptyDict]
    /\ result = [c \in Calls |-> PyNone]
    /\ error = [c \in Calls |-> NoError]
    /\ log = [c \in Calls |-> <<>>]
    /\ jobs = [a \in Arns |-> NoJob]

\* one caller makes one call
Init ==
    /\ pc = [c \in Calls |-> IF c = 1 THEN "idle" ELSE "off"]
    /\ InitCommon

Next ==
    \/ \E c \in Calls : GenerateImage(c)
    \/ \E c \in Calls : InvokeModel(c)
    \/ \E c \in Calls : GenerateVideo(c)
    \/ \E c \in Calls : StartAsyncInvoke(c)
    \/ \E c \in Calls : GetAsyncInvoke(c)
    \/ \E c \in Calls : Sleep(c)
    \/ \E c \in Calls : GetObject(c)
    \/ \E a \in Arns : JobProgress(a)

Spec == Init /\ [][Next]_vars

\* the calls that two threads make on one NovaGenerator
ConcVideoBags ==
    {("text" :> "Dolly forward"),
     ("text" :> "Dolly forward") @@ ("image" :> JpegRGB)}

ConcImageInputs ==
    {[task |-> "TEXT_IMAGE", p |-> ("text" :> "a red cube")],
     [task |-> "BACKGROUND_REMOVAL", p |-> ("image" :> PngRGBA)]}

ConcGenerateVideo(c) == \E p \in ConcVideoBags : GenerateVideoOf(c, p)

ConcGenerateImage(c) == \E i \in ConcImageInputs : GenerateImageOf(c, i.task, i.p)

\* two threads, each about to make one call on the same object
ConcInit ==
    /\ pc = [c \in Calls |-> IF c \in {1, 2} THEN "idle" ELSE "off"]
    /\ InitCommon

ConcNext ==
    \/ \E c \in Calls : ConcGenerateImage(c)
    \/ \E c \in Calls : InvokeModel(c)
    \/ \E c \in Calls : ConcGenerateVideo(c)
    \/ \E c \in Calls : StartAsyncInvoke(c)
    \/ \E c \in Calls : GetAsyncInvoke(c)
    \/ \E c \in Calls : Sleep(c)
    \/ \E c \in Calls : GetObject(c)
    \/ \E a \in Arns : JobProgress(a)

ConcSpec == ConcInit /\ [][ConcNext]_vars

---------------------------------------------------------------------------
(* What the calls did, read off the log *)

Last(s) == s[Len(s)]

\* the status reads, sleeps and fetches of call c, in order
PollLog(c) ==
    SelectSeq(log[c], LAMBDA e : e.op \in {"get_async_invoke", "sleep", "get_object"})

ReadLog(c) == SelectSeq(log[c], LAMBDA e : e.op = "get_async_invoke")
SleepLog(c) == SelectSeq(log[c], LAMBDA e : e.op = "sleep")
FetchLog(c) == SelectSeq(log[c], LAMBDA e : e.op = "get_object")

\* the calls that reached a remote service
RemoteLog(c) ==
    SelectSeq(log[c], LAMBDA e : e.op \in {"invoke_model", "start_async_invoke",
                                           "get_async_invoke", "get_object"})

VideoCalls == {c \in Calls : method[c] = "generate_video"}
ImageCalls == {c \in Calls : method[c] = "generate_image"}

\* the reads of c are n non-terminal statuses followed by Completed
ReadsEndInCompleted(c) ==
    /\ ReadLog(c) # <<>>
    /\ Last(ReadLog(c)).outcome = "Completed"
    /\ \A i \in 1..(Len(ReadLog(c)) - 1) : ReadLog(c)[i].outcome \in NonTerminal

---------------------------------------------------------------------------
(* C1: in generate_video, when the status reads are n non-terminal        *)
(* statuses followed by Completed, the poller has made exactly n+1 reads  *)
(* and n sleeps, one sleep right after each non-terminal read and none    *)
(* after the Completed read; it then fetches the artifact exactly once,   *)
(* after the Completed read, and a fetch that succeeds returns the job's  *)
(* artifact base64-encoded.                                               *)
C1_SleepsPerPendingReadThenOneFetch ==
    \A c \in VideoCalls :
        ReadsEndInCompleted(c) =>
            LET n == Len(ReadLog(c)) - 1
                P == PollLog(c)
            IN  /\ Len(SleepLog(c)) = n
                /\ Len(P) \in {2 * n + 1, 2 * n + 2}
                /\ \A i \in 1..(2 * n + 1) :
                      P[i].op = IF i % 2 = 1 THEN "get_async_invoke" ELSE "sleep"
                /\ Len(P) = 2 * n + 1 <=> pc[c] = "get_object"
                /\ Len(P) = 2 * n + 2 =>
                      /\ Last(P).op = "get_object"
                      /\ Len(FetchLog(c)) = 1
                      /\ pc[c] = (IF Last(P).outcome = "ok" THEN "returned" ELSE "raised")
                /\ pc[c] = "returned" =>
                      result[c] = PyStr(b64encode(OutputObject(response[c]).data))

\* two pending reads, two sleeps, Completed, the artifact returned
C1_Witness ==
    \E c \in VideoCalls :
        /\ pc[c] = "returned"
        /\ Len(ReadLog(c)) = 3
        /\ Len(SleepLog(c)) = 2
        /\ Len(FetchLog(c)) = 1

(* C2: in generate_video a status read that returns Failed ends the call  *)
(* at once with the job-failed error carrying the remote failureMessage:  *)
(* nothing (no sleep, no read, no fetch) follows that read.               *)
C2_FailedRaisesImmediately ==
    \A c \in VideoCalls :
        \A i \in 1..Len(PollLog(c)) :
            (PollLog(c)[i].op = "get_async_invoke" /\ PollLog(c)[i].outcome = "Failed")
            => /\ i = Len(PollLog(c))
               /\ pc[c] = "raised"
               /\ error[c] = [exc |-> "Exception",
                              msg |-> <<"Video generation failed: ",
                                        Get(job_response[c], "failureMessage",
                                            "Unknown error")>>]

(* C3: the polling loop stops once a terminal status (Completed or        *)
(* Failed) has been observed: after such a read the call is fetching, has *)
(* returned or has raised, and is not back in the loop.                   *)
C3_StopsOnceTerminalObserved ==
    \A c \in VideoCalls :
        (ReadLog(c) # <<>> /\ Last(ReadLog(c)).outcome \in {"Completed", "Failed"})
        => pc[c] \in {"get_object", "returned", "raised"}

(* C7: in generate_video a transport error of a status read is not        *)
(* retried (it ends the call with that error, and no read, sleep or fetch *)
(* follows it), and the loop repeats only on a successful read of a       *)
(* non-terminal status.                                                   *)
C7_NoRetryOnErrorRepeatOnlyOnPending ==
    \A c \in VideoCalls :
        LET P == PollLog(c)
        IN  /\ \A i \in 1..Len(P) :
                  (P[i].op = "get_async_invoke" /\ P[i].outcome = "raise")
                  => /\ i = Len(P)
                     /\ pc[c] = "raised"
                     /\ error[c] = TransportError
            /\ \A i \in 1..Len(P) :
                  P[i].op = "sleep"
                  => /\ i > 1
                     /\ P[i - 1].op = "get_async_invoke"
                     /\ P[i - 1].outcome \in NonTerminal
            /\ pc[c] = "sleep" => (P # <<>> /\ Last(P).outcome \in NonTerminal)

(* C8: in generate_video a fetch that fails after a Completed status ends *)
(* the call with the retrieval error that wraps the cause; the fetch was  *)
(* attempted once, after the Completed read, and no read or sleep follows.*)
C8_FetchFailureRaisesWrapped ==
    \A c \in VideoCalls :
        LET P == PollLog(c)
        IN  \A i \in 1..Len(P) :
               (P[i].op = "get_object" /\ P[i].outcome # "ok")
               => /\ i = Len(P)
                  /\ i > 1
                  /\ P[i - 1].op = "get_async_invoke"
                  /\ P[i - 1].outcome = "Completed"
                  /\ Len(FetchLog(c)) = 1
                  /\ pc[c] = "raised"
                  /\ error[c] = [exc |-> "Exception",
                                 msg |-> <<"Error downloading video: ", P[i].outcome>>]

\* a fetch failed after one sleep and a Completed read
C8_Witness ==
    \E c \in VideoCalls :
        /\ pc[c] = "raised"
        /\ FetchLog(c) # <<>>
        /\ Last(FetchLog(c)).outcome = "EndpointConnectionError"
        /\ Len(SleepLog(c)) = 1

---------------------------------------------------------------------------
(* Image calls *)

\* the task-specific parameter block of an envelope
TaskParams(body) ==
    CASE body.taskType = "TEXT_IMAGE" -> body.textToImageParams
      [] body.taskType = "INPAINTING" -> body.inPaintingParams
      [] body.taskType = "OUTPAINTING" -> body.outPaintingParams
      [] body.taskType = "COLOR_GUIDED_GENERATION" -> body.colorGuidedGenerationParams
      [] body.taskType = "BACKGROUND_REMOVAL" -> body.backgroundRemovalParams
      [] body.taskType = "IMAGE_VARIATION" -> body.imageVariationParams
      [] body.taskType = "TEXT_VIDEO" -> body.textToVideoParams

MaskCalls == {c \in ImageCalls : task_type[c] \in {"INPAINTING", "OUTPAINTING"}}

HasMaskImage(c) == "maskImage" \in DOMAIN params[c] /\ TruthyBlob(params[c].maskImage)
HasMaskPrompt(c) == "maskPrompt" \in DOMAIN params[c] /\ Truthy(params[c].maskPrompt)

\* call c left the builder through an exception of its own, before any
\* remote call
RaisedLocally(c) == pc[c] = "raised" /\ RemoteLog(c) = <<>>

\* the envelope of c was built and handed to the remote service
Sent(c) ==
    \/ pc[c] \in {"invoke_model", "start_async_invoke"} /\ RemoteLog(c) = <<>>
    \/ RemoteLog(c) # <<>> /\ RemoteLog(c)[1].op \in {"invoke_model", "start_async_invoke"}

(* C4 as stated: an Inpainting or Outpainting parameter set with both     *)
(* maskImage and maskPrompt, or with neither, fails with a validation     *)
(* error before any remote call.                                          *)
C4_BothOrNeitherRejected ==
    \A c \in MaskCalls :
        (HasMaskImage(c) <=> HasMaskPrompt(c)) => RaisedLocally(c)

(* C4 amended: no Inpainting or Outpainting parameter set is rejected for *)
(* its mask fields; the envelope is always built and handed to            *)
(* invoke_model, with maskImage alone (normalized) when maskImage is      *)
(* non-empty, with maskPrompt alone when only maskPrompt is non-empty,    *)
(* and with neither key when both are absent or empty.                    *)
C4_MaskCombinationsAllSent ==
    \A c \in MaskCalls :
        /\ Sent(c)
        /\ ~RaisedLocally(c)
        /\ DOMAIN TaskParams(request_body[c]) \cap {"maskImage", "maskPrompt"} =
              (IF HasMaskImage(c) THEN {"maskImage"}
               ELSE IF HasMaskPrompt(c) THEN {"maskPrompt"}
               ELSE {})
        /\ HasMaskImage(c) =>
              TaskParams(request_body[c]).maskImage =
                 _ensure_valid_image_format(params[c].maskImage)

\* both supplied, and the call went through to a result
C4_Witness ==
    \E c \in MaskCalls :
        /\ HasMaskImage(c) /\ HasMaskPrompt(c)
        /\ pc[c] = "returned"
        /\ Len(RemoteLog(c)) = 1

(* C5: generate_image with a task kind outside the supported set fails    *)
(* with the unsupported-task error and has called nothing: no             *)
(* invoke_model, no start_async_invoke, no media normalization.           *)
C5_UnsupportedTaskRaisesWithoutCalls ==
    \A c \in ImageCalls :
        task_type[c] \notin SupportedTasks
        => /\ pc[c] = "raised"
           /\ error[c] = [exc |-> "ValueError",
                          msg |-> <<"Unsupported task type: ", task_type[c]>>]
           /\ log[c] = <<>>
           /\ request_body[c] = NoBody

\* an unsupported task kind with a bag that carries images
C5_Witness ==
    \E c \in ImageCalls :
        /\ task_type[c] = "UNKNOWN"
        /\ "conditionImage" \in DOMAIN params[c]
        /\ pc[c] = "raised"

\* the bag of c lacks a field its task requires
MissingRequired(c) ==
    LET p == params[c]
        lacks(k) == k \notin DOMAIN p
    IN  \/ /\ method[c] = "generate_video"
           /\ lacks("text")
        \/ /\ method[c] = "generate_image"
           /\ \/ task_type[c] \in {"TEXT_IMAGE", "INPAINTING", "COLOR_GUIDED_GENERATION"}
                 /\ lacks("text")
              \/ task_type[c] \in {"INPAINTING", "OUTPAINTING", "BACKGROUND_REMOVAL"}
                 /\ lacks("image")
              \/ task_type[c] = "IMAGE_VARIATION"
                 /\ (lacks("images") \/ p.images = <<>>)
              \/ task_type[c] = "COLOR_GUIDED_GENERATION"
                 /\ (lacks("colors") \/ p.colors = PyList(<<>>))

(* C6 as stated: a request whose bag lacks a required field fails with a  *)
(* validation error before any remote call.                               *)
C6_MissingFieldRejected ==
    \A c \in Calls : MissingRequired(c) => RaisedLocally(c)

\* the value the code embeds for a field the bag lacks
EmbeddedDefaults(c) ==
    LET p == params[c]
        tp == TaskParams(request_body[c])
        lacks(k) == k \notin DOMAIN p
    IN  IF method[c] = "generate_video"
        THEN lacks("text") => tp.text = None
        ELSE /\ (lacks("text") /\ task_type[c] # "BACKGROUND_REMOVAL") => tp.text = ""
             /\ (/\ lacks("image")
                 /\ task_type[c] \in {"INPAINTING", "OUTPAINTING", "BACKGROUND_REMOVAL"})
                   => tp.image = EmptyBlob
             /\ (lacks("images") /\ task_type[c] = "IMAGE_VARIATION")
                   => tp.images = <<>>
             /\ (lacks("colors") /\ task_type[c] = "COLOR_GUIDED_GENERATION")
                   => tp.colors = << <<>> >>

(* C6 amended: a request whose bag lacks a field its task requires is not *)
(* rejected: generate_image embeds the empty default (text '', image '',  *)
(* images [], colors [''] from splitting ''), generate_video embeds None  *)
(* for the text, and the envelope is handed to the remote service.        *)
C6_MissingFieldDefaultedAndSent ==
    \A c \in Calls :
        (MissingRequired(c) /\ (method[c] = "generate_image" => task_type[c] \in SupportedTasks))
        => /\ Sent(c)
           /\ ~RaisedLocally(c)
           /\ EmbeddedDefaults(c)

\* a TextToImage call without text got its images
C6_Witness ==
    \E c \in ImageCalls :
        /\ task_type[c] = "TEXT_IMAGE"
        /\ "text" \notin DOMAIN params[c]
        /\ pc[c] = "returned"
        /\ result[c].type = "list" /\ Len(result[c].v) = 1

\* numberOfImages of the request of c (1 for BackgroundRemoval, which has
\* no imageGenerationConfig)
Requested(c) ==
    IF "imageGenerationConfig" \in DOMAIN request_body[c]
    THEN request_body[c].imageGenerationConfig.numberOfImages
    ELSE 1

(* C9 as stated: an image call that returns normally returns a non-empty  *)
(* sequence of blobs (or a single blob) whose length is the requested     *)
(* numberOfImages; a response without images never becomes an empty       *)
(* result.                                                                *)
C9_ReturnsRequestedNumberOfImages ==
    \A c \in ImageCalls :
        pc[c] = "returned"
        => /\ result[c].type \in {"list", "str"}
           /\ Len(result[c].v) >= 1
           /\ result[c].type = "list" => Len(result[c].v) = Requested(c)

(* C9 amended: an image call that returns normally returns the images     *)
(* field of the response envelope unchanged, whatever its length, and the *)
(* empty default ([]; '' for BackgroundRemoval) when the response has no  *)
(* images field; only an exception of invoke_model, or of reading and     *)
(* parsing its body, ends the call with an error.                         *)
C9_ReturnsImagesFieldOrEmptyDefault ==
    \A c \in ImageCalls :
        /\ pc[c] = "returned"
           => /\ Last(log[c]) = [op |-> "invoke_model", outcome |-> "ok"]
              /\ result[c] =
                    IF "images" \in DOMAIN http_response[c]
                    THEN PyList(http_response[c].images)
                    ELSE IF task_type[c] = "BACKGROUND_REMOVAL"
                    THEN PyStr(<<>>) ELSE PyList(<<>>)
        /\ (pc[c] = "raised" /\ RemoteLog(c) # <<>>)
           => /\ Last(log[c]) = [op |-> "invoke_model", outcome |-> "raise"]
              /\ error[c] = TransportError
              /\ result[c] = PyNone

\* a response without images became an empty list
C9_Witness ==
    \E c \in ImageCalls :
        /\ pc[c] = "returned"
        /\ "images" \notin DOMAIN http_response[c]
        /\ result[c] = PyList(<<>>)

(* C10: a TextToImage or ColorGuidedGeneration request through            *)
(* generate_image whose bag supplies text and omits width and height has  *)
(* imageGenerationConfig.width = 1024 and height = 1024 in its envelope.  *)
C10_DefaultSizeIs1024 ==
    \A c \in ImageCalls :
        (/\ task_type[c] \in {"TEXT_IMAGE", "COLOR_GUIDED_GENERATION"}
         /\ "text" \in DOMAIN params[c]
         /\ "width" \notin DOMAIN params[c]
         /\ "height" \notin DOMAIN params[c])
        => /\ request_body[c].imageGenerationConfig.width = "1024"
           /\ request_body[c].imageGenerationConfig.height = "1024"

---------------------------------------------------------------------------
\* the calls whose envelope has been built
BuiltCalls == {c \in Calls : request_body[c] # NoBody}

\* the task kind the caller asked for
TaskKind(c) == IF method[c] = "generate_video" THEN "TEXT_VIDEO" ELSE task_type[c]

(* C11: the envelope built for BackgroundRemoval and the envelope built   *)
(* for TextToVideo never contain an imageGenerationConfig key; the        *)
(* envelopes of the other five task kinds always contain one.             *)
C11_ImageConfigOnlyForFiveTasks ==
    \A c \in BuiltCalls :
        ("imageGenerationConfig" \in DOMAIN request_body[c])
        <=> TaskKind(c) \in {"TEXT_IMAGE", "INPAINTING", "OUTPAINTING",
                             "IMAGE_VARIATION", "COLOR_GUIDED_GENERATION"}

\* a BackgroundRemoval envelope was sent and answered
C11_Witness ==
    \E c \in ImageCalls :
        /\ task_type[c] = "BACKGROUND_REMOVAL"
        /\ "image" \in DOMAIN params[c]
        /\ pc[c] = "returned"

---------------------------------------------------------------------------
(* Images in and out of the envelopes *)

OptImage(d, key) == IF key \in DOMAIN d /\ TruthyBlob(d[key]) THEN <<d[key]>> ELSE <<>>

\* the images of the caller's bag that the task of c routes through the
\* Media Normalizer, in the order of the builder
CallerImages(c) ==
    LET p == params[c]
    IN  CASE task_type[c] = "TEXT_IMAGE" -> OptImage(p, "conditionImage")
          [] task_type[c] \in {"INPAINTING", "OUTPAINTING"} ->
                <<Get(p, "image", EmptyBlob)>> \o OptImage(p, "maskImage")
          [] task_type[c] = "COLOR_GUIDED_GENERATION" -> OptImage(p, "referenceImage")
          [] task_type[c] = "IMAGE_VARIATION" -> Get(p, "images", <<>>)
          [] OTHER -> <<>>

Present(d, key) == IF key \in DOMAIN d THEN <<d[key]>> ELSE <<>>

\* the image values the envelope of c carries, in the same order
EmbeddedImages(c) ==
    LET tp == TaskParams(request_body[c])
    IN  CASE task_type[c] = "TEXT_IMAGE" -> Present(tp, "conditionImage")
          [] task_type[c] \in {"INPAINTING", "OUTPAINTING"} ->
                <<tp.image>> \o Present(tp, "maskImage")
          [] task_type[c] = "COLOR_GUIDED_GENERATION" -> Present(tp, "image")
          [] task_type[c] = "IMAGE_VARIATION" -> tp.images
          [] task_type[c] = "BACKGROUND_REMOVAL" -> <<tp.image>>

\* the arguments of the Media Normalizer calls of c, in order
NormArgs(c) ==
    LET N == SelectSeq(log[c], LAMBDA e : e.op = "_ensure_valid_image_format")
    IN  [i \in 1..Len(N) |-> N[i].arg]

\* the image calls whose envelope was built, BackgroundRemoval apart
NormalizingCalls == {c \in ImageCalls \cap BuiltCalls : task_type[c] # "BACKGROUND_REMOVAL"}

(* C12: every image value in an envelope sent for Inpainting (image,      *)
(* maskImage), Outpainting (image, maskImage), ImageVariation (each of    *)
(* images), ColorGuidedGeneration (reference image) and TextToImage       *)
(* (condition image) is the Media Normalizer's output for the caller's    *)
(* input, computed before the remote call; the BackgroundRemoval envelope *)
(* carries the caller's image unchanged and the normalizer is not called. *)
C12_EmbeddedImagesAreNormalized ==
    \A c \in ImageCalls \cap BuiltCalls :
        IF task_type[c] = "BACKGROUND_REMOVAL"
        THEN /\ NormArgs(c) = <<>>
             /\ EmbeddedImages(c) = <<Get(params[c], "image", EmptyBlob)>>
        ELSE /\ NormArgs(c) = CallerImages(c)
             /\ EmbeddedImages(c) =
                   [i \in 1..Len(CallerImages(c)) |->
                       _ensure_valid_image_format(CallerImages(c)[i])]
             /\ \A i \in 1..Len(log[c]) :
                   log[c][i].op = "invoke_model"
                   => \A j \in 1..Len(log[c]) :
                         log[c][j].op = "_ensure_valid_image_format" => j < i

\* an Inpainting call with a transparent image and a transparent mask
\* image was sent with both flattened
C12_Witness ==
    \E c \in ImageCalls :
        /\ task_type[c] = "INPAINTING"
        /\ CallerImages(c) = <<PngRGBA, PngRGBA>>
        /\ EmbeddedImages(c) = <<Blob("JPEG", "RGB", FALSE, "white", 255),
                                 Blob("JPEG", "RGB", FALSE, "white", 255)>>
        /\ pc[c] = "returned"

(* C13: the Media Normalizer never raises to its caller: for every input  *)
(* on which decoding, compositing or re-encoding fails it returns the     *)
(* input unchanged, and the builder goes on and issues its remote call    *)
(* with that original value in the envelope.                              *)
C13_NormalizerFailsSoft ==
    \A c \in NormalizingCalls :
        /\ Len(EmbeddedImages(c)) = Len(NormArgs(c))
        /\ \A i \in 1..Len(NormArgs(c)) :
              ~TryNormalize(NormArgs(c)[i]).ok
              => /\ EmbeddedImages(c)[i] = NormArgs(c)[i]
                 /\ Sent(c)
                 /\ ~RaisedLocally(c)

\* a condition image that is no image went out unchanged and the call
\* got its answer
C13_Witness ==
    \E c \in ImageCalls :
        /\ task_type[c] = "TEXT_IMAGE"
        /\ NormArgs(c) = <<Garbage>>
        /\ TaskParams(request_body[c]).conditionImage = Garbage
        /\ pc[c] = "returned"

\* b decodes to an opaque image in the target encoding
OpaqueJpeg(b) ==
    /\ b.fmt = "JPEG"
    /\ b.mode \notin {"RGBA", "LA", "PA", "RGBa", "La"}
    /\ ~b.tinfo
    /\ b.alpha = 255

---------------------------------------------------------------------------
(* Colors *)

\* sep.join(parts)
RECURSIVE Join(_, _)
Join(parts, sep) ==
    IF Len(parts) = 0 THEN <<>>
    ELSE IF Len(parts) = 1 THEN parts[1]
    ELSE parts[1] \o <<sep>> \o Join(Tail(parts), sep)

ColorCalls == {c \in ImageCalls \cap BuiltCalls : task_type[c] = "COLOR_GUIDED_GENERATION"}

(* C15: for ColorGuidedGeneration, colors supplied as a comma-joined      *)
(* string are embedded as the list of the comma-separated items in their  *)
(* original order ("#FF0000,#00FF00" becomes ["#FF0000", "#00FF00"]);     *)
(* colors supplied as a list are embedded unchanged.                      *)
C15_ColorsStringSplitInOrder ==
    \A c \in ColorCalls :
        LET colors == Get(params[c], "colors", PyStr(<<>>))
            out == TaskParams(request_body[c]).colors
        IN  /\ colors.type = "list" => out = colors.v
            /\ colors.type = "str" =>
                  /\ Len(out) >= 1
                  /\ \A i \in 1..Len(out) : \A k \in 1..Len(out[i]) : out[i][k] # ","
                  /\ Join(out, ",") = colors.v
            /\ colors = PyStr(<<"#FF0000", ",", "#00FF00">>)
               => out = << <<"#FF0000">>, <<"#00FF00">> >>

\* a string of three colours went out as the list of the three, in order
C15_Witness ==
    \E c \in ColorCalls :
        /\ Get(params[c], "colors", PyStr(<<>>))
              = PyStr(<<"#0000FF", ",", "#FF0000", ",", "#00FF00">>)
        /\ TaskParams(request_body[c]).colors = <<Blue, Red, Green>>
        /\ pc[c] = "returned"

---------------------------------------------------------------------------
(* The seed frame of TextToVideo *)

SeedFrames(c) == request_body[c].textToVideoParams.images

(* C16: the envelope built by generate_video carries a seed-frame image   *)
(* entry if and only if the parameter bag supplied an image; a bag        *)
(* without an image yields an envelope with no image entry, never an      *)
(* entry with an absent or null payload.                                  *)
C16_SeedFrameOnlyWhenSupplied ==
    \A c \in VideoCalls \cap BuiltCalls :
        /\ ("image" \in DOMAIN params[c]) <=> Len(SeedFrames(c)) > 0
        /\ \A i \in 1..Len(SeedFrames(c)) : SeedFrames(c)[i].source.bytes # NoneBlob

---------------------------------------------------------------------------
(* The mask of Inpainting and Outpainting *)

MaskKeys(c) == DOMAIN TaskParams(request_body[c]) \cap {"maskImage", "maskPrompt"}

(* C18: the envelope sent for Inpainting or Outpainting never contains    *)
(* both a maskImage key and a maskPrompt key: when both are supplied      *)
(* non-empty the maskImage is embedded, normalized, and the maskPrompt is *)
(* dropped; a maskPrompt is embedded only when maskImage is absent or     *)
(* empty.                                                                 *)
C18_NeverBothMaskKeys ==
    \A c \in MaskCalls \cap BuiltCalls :
        /\ MaskKeys(c) # {"maskImage", "maskPrompt"}
        /\ (HasMaskImage(c) /\ HasMaskPrompt(c))
           => /\ MaskKeys(c) = {"maskImage"}
              /\ TaskParams(request_body[c]).maskImage
                    = _ensure_valid_image_format(params[c].maskImage)
        /\ "maskPrompt" \in MaskKeys(c)
           => /\ ~TruthyBlob(Get(params[c], "maskImage", NoneBlob))
              /\ TaskParams(request_body[c]).maskPrompt = params[c].maskPrompt

\* an Outpainting bag with both masks went out with the mask image only
C18_Witness ==
    \E c \in MaskCalls :
        /\ task_type[c] = "OUTPAINTING"
        /\ HasMaskImage(c) /\ HasMaskPrompt(c)
        /\ MaskKeys(c) = {"maskImage"}
        /\ Sent(c)

---------------------------------------------------------------------------
(* Two calls at once *)

\* the video calls that were given an invocation handle
StartedCalls ==
    {c \in VideoCalls : \E i \in 1..Len(log[c]) :
        log[c][i].op = "start_async_invoke" /\ log[c][i].outcome = "ok"}

\* the handle start_async_invoke gave to call c
Handle(c) ==
    LET S == SelectSeq(log[c], LAMBDA e : e.op = "start_async_invoke")
    IN  S[1].arn

\* what call c holds is what its own bag, its own job and its own answers
\* determine
OwnVideoState(c) ==
    /\ request_body[c] = VideoModelInput(params[c])
    /\ c \in StartedCalls =>
          /\ \A i \in 1..Len(log[c]) :
                /\ log[c][i].op = "get_async_invoke" => log[c][i].arn = Handle(c)
                /\ log[c][i].op = "get_object" =>
                      /\ log[c][i].bucket = OutputObject(Handle(c)).bucket
                      /\ log[c][i].key = OutputObject(Handle(c)).key
          /\ job_response[c] # NoJobResponse =>
                job_response[c].outputDataConfig.s3OutputDataConfig.s3Uri
                   = JobS3Uri(Handle(c))
          /\ pc[c] = "returned" =>
                result[c] = PyStr(b64encode(OutputObject(Handle(c)).data))

OwnImageState(c) ==
    /\ request_body[c] = generate_image(task_type[c], params[c]).body
    /\ pc[c] = "returned" => result[c] = Unwrap(request_body[c], http_response[c])

(* C17: when two generate_video or generate_image calls on one            *)
(* NovaGenerator are interleaved in any order, each call polls only its   *)
(* own invocation handle, fetches only from its own job's output          *)
(* location and returns the result its own inputs and answers determine,  *)
(* as it would alone; the two calls never hold the same handle.           *)
C17_InterleavedCallsIndependent ==
    /\ \A c \in VideoCalls : OwnVideoState(c)
    /\ \A c \in ImageCalls : OwnImageState(c)
    /\ \A c, d \in StartedCalls : c # d => Handle(c) # Handle(d)

\* two video calls overlapped: call 2 was given the first handle and is
\* still polling when call 1, started after it, has returned its own video
C17_Witness ==
    /\ {1, 2} \subseteq StartedCalls
    /\ Handle(2) = 1 /\ Handle(1) = 2
    /\ pc[1] = "returned" /\ pc[2] = "sleep"
    /\ Len(ReadLog(1)) >= 2 /\ Len(ReadLog(2)) >= 2
    /\ result[1] = PyStr(b64encode(OutputObject(2).data))

====
